---------------------------- MODULE Spec2Model ----------------------------
(***************************************************************************)
(* The Numba basics notebook (2.1a_Python_for_HPC/0_numba/0_basics.ipynb)  *)
(* as a state machine: the kernel's persistent state (which @jit functions *)
(* are defined, the dispatchers' compiled specialisations, the global      *)
(* random generator) and the call in progress (its arguments, loop locals  *)
(* and return value).                                                      *)
(*                                                                         *)
(* float64 is modelled at reduced width: a value is an integer number of   *)
(* units of 1/One, and every arithmetic result is rounded to nearest-even  *)
(* on MantBits significant bits, as IEEE-754 does on 53.  tanh, sin, cos   *)
(* and arccos are tables of the correctly rounded values in that format.   *)
(***************************************************************************)
EXTENDS Integers, Sequences, FiniteSets, TLC

VARIABLES
    defined,    \* names bound by the definition cells that have run
    compiled,   \* the dispatchers' caches: <<function, signature>> pairs
    ncompile,   \* compilations performed so far, per <<function, signature>>
    hit,        \* whether the call's dispatch found its signature in the cache
    rng,        \* state of the global random generator
    pc,         \* "idle", "loop" (inside a for loop) or "done" (returned/raised)
    fn,         \* the function being called
    args,       \* the call's argument tuple (arrays are passed by reference)
    i,          \* loop variable: the next index range() yields
    iters,      \* loop bodies executed by the call so far
    trace,      \* go_fast's accumulator
    out,        \* random_directions' output rows filled so far
    draw,       \* random_directions' last iteration: [phi, u, theta]
    ret,        \* the returned value
    err,        \* "none", "IndexError", "oob" (unchecked read past the shape), "crash" or "nan"
    ref         \* an earlier finished call kept for comparison

vars == <<defined, compiled, ncompile, hit, rng, pc, fn, args, i, iters, trace,
          out, draw, ret, err, ref>>

-----------------------------------------------------------------------------
(* Bounds of the model *)

\* largest number of rows or columns of a matrix passed to the trace functions
MaxDim == 8
\* largest number of rows or columns of a matrix in the whole-notebook specification
SmallDim == 2
\* largest n passed to random_directions
MaxCount == 2

-----------------------------------------------------------------------------
(* Reduced-width float64 *)

\* 1.0 in units
One == 16
\* significant bits of the format (53 for float64)
MantBits == 5

Abs(v) == IF v < 0 THEN -v ELSE v

Pow2(k) == 2 ^ k

\* spacing of the representable values around |num/den|: the least power of
\* two q with |num/den| < q * 2^MantBits
RECURSIVE QuantumFrom(_, _, _)
QuantumFrom(n, den, q) ==
    IF n < q * Pow2(MantBits) * den THEN q ELSE QuantumFrom(n, den, 2 * q)

\* num/d rounded to the nearest integer, ties to even
RoundHalfEven(num, d) ==
    LET fl == num \div d
        rem == num - fl * d
    IN  IF 2 * rem > d \/ (2 * rem = d /\ fl % 2 = 1) THEN fl + 1 ELSE fl

\* the exact quotient num/den (den > 0) rounded to a representable value
FlDiv(num, den) ==
    LET q == QuantumFrom(Abs(num), den, 1)
    IN  q * RoundHalfEven(num, den * q)

\* the result of an invalid floating-point operation; it is no value of the
\* format and every operation on it yields it again
NaN == 1000000

Fl(v) == FlDiv(v, 1)
FlAdd(x, y) == IF x = NaN \/ y = NaN THEN NaN ELSE Fl(x + y)
FlSub(x, y) == IF x = NaN \/ y = NaN THEN NaN ELSE Fl(x - y)
FlMul(x, y) == IF x = NaN \/ y = NaN THEN NaN ELSE FlDiv(x * y, One)

\* np.pi and the literal 2*np.pi
Pi == 50
TwoPi == FlMul(2 * One, Pi)

-----------------------------------------------------------------------------
(* Elementary functions, correctly rounded in the reduced format *)

\* tanh(v/One)*One for v = 0, 1, ...; beyond the table tanh rounds to 1.0
TanhTab ==
    << 0, 1, 2, 3, 4, 5, 6, 7, 7, 8, 9, 10, 10, 11, 11, 12,
       12, 13, 13, 13, 14, 14, 14, 14, 14, 15, 15, 15, 15, 15, 15, 15,
       15, 15 >>

\* sin(v/One)*One for v = 0 .. TwoPi
SinTab ==
    << 0, 1, 2, 3, 4, 5, 6, 7, 8, 9, 9, 10, 11, 12, 12, 13,
       13, 14, 14, 15, 15, 15, 16, 16, 16, 16, 16, 16, 16, 16, 15, 15,
       15, 14, 14, 13, 12, 12, 11, 10, 10, 9, 8, 7, 6, 5, 4, 3,
       2, 1, 0, -1, -2, -3, -4, -5, -6, -7, -7, -8, -9, -10, -11, -11,
       -12, -13, -13, -14, -14, -15, -15, -15, -16, -16, -16, -16, -16, -16, -16, -16,
       -15, -15, -15, -14, -14, -13, -13, -12, -11, -11, -10, -9, -8, -7, -6, -5,
       -4, -4, -3, -2, -1 >>

\* cos(v/One)*One for v = 0 .. TwoPi
CosTab ==
    << 16, 16, 16, 16, 16, 15, 15, 14, 14, 14, 13, 12, 12, 11, 10, 9,
       9, 8, 7, 6, 5, 4, 3, 2, 1, 0, -1, -2, -3, -4, -5, -6,
       -7, -8, -8, -9, -10, -11, -12, -12, -13, -13, -14, -14, -15, -15, -15, -16,
       -16, -16, -16, -16, -16, -16, -16, -15, -15, -15, -14, -14, -13, -13, -12, -11,
       -10, -10, -9, -8, -7, -6, -5, -4, -3, -2, -1, 0, 1, 2, 3, 4,
       5, 5, 6, 7, 8, 9, 10, 11, 11, 12, 13, 13, 14, 14, 15, 15,
       15, 16, 16, 16, 16 >>

\* arccos(u/One)*One for u = -One .. One
ArcCosTab ==
    << 50, 44, 42, 40, 38, 38, 36, 34, 34, 32, 31, 30, 29, 28, 27, 26,
       25, 24, 23, 22, 21, 20, 19, 18, 17, 16, 14, 13, 12, 10, 8, 6,
       0 >>

\* np.tanh of a scalar: odd, saturating at +-1.0
tanh(v) ==
    LET t == IF Abs(v) < Len(TanhTab) THEN TanhTab[Abs(v) + 1] ELSE One
    IN  IF v = NaN THEN NaN ELSE IF v < 0 THEN -t ELSE t

\* np.sin and np.cos: the tables on [0, 2*pi], continued periodically
sin(v) == IF v = NaN THEN NaN
          ELSE IF v \in 0..TwoPi THEN SinTab[v + 1] ELSE SinTab[(v % TwoPi) + 1]
cos(v) == IF v = NaN THEN NaN
          ELSE IF v \in 0..TwoPi THEN CosTab[v + 1] ELSE CosTab[(v % TwoPi) + 1]

\* np.arccos: nan outside [-1, 1]
arccos(u) == IF u \in (-One)..One THEN ArcCosTab[u + One + 1] ELSE NaN

-----------------------------------------------------------------------------
(* The random module: a linear congruential generator stands for the       *)
(* Mersenne Twister; random() advances the state and returns its top bits  *)
(* as a float in [0.0, 1.0)                                                *)

RngMod == 32
RngNext(s) == (5 * s + 3) % RngMod
RngOut(s) == (s * One) \div RngMod

\* uniform() offset from b instead of a
uniform_from_b(a, b, s) == FlAdd(b, FlMul(FlSub(b, a), RngOut(RngNext(s))))

\* random.uniform(a, b) with the generator in state s: the value drawn
uniform(a, b, s) == FlAdd(a, FlMul(FlSub(b, a), RngOut(RngNext(s))))

-----------------------------------------------------------------------------
(* Values: scalars carry their Numba type, arrays their dtype and shape *)

Int64(k) == [ty |-> "int64", v |-> k]
Float64(v) == [ty |-> "float64", v |-> v]

\* the float64 value of a scalar (an int64 converts exactly)
AsFloat(x) == IF x.ty = "int64" THEN x.v * One ELSE x.v

Min(m, k) == IF m < k THEN m ELSE k

\* a rows x cols array of dtype dt: np.arange(rows*cols).reshape(rows, cols)
\* with the diagonal replaced by d (d[k] is element [k-1, k-1])
Mat(dt, rows, cols, d) ==
    [ty |-> "array", dtype |-> dt, rows |-> rows, cols |-> cols,
     data |-> [p \in (0..(rows - 1)) \X (0..(cols - 1)) |->
                 IF p[1] = p[2] THEN d[p[1] + 1]
                 ELSE IF dt = "int64" THEN p[1] * cols + p[2]
                 ELSE (p[1] * cols + p[2]) * One]]

\* diagonal entries the inputs draw from: the integers 1 and 2, the floats 0.5 and 1.5
DiagVals(dt) == IF dt = "int64" THEN {1, 2} ELSE {One \div 2, One + One \div 2}

Matrices(maxdim, dtypes) ==
    UNION { { Mat(dt, rows, cols, d) : d \in [1..Min(rows, cols) -> DiagVals(dt)] } :
            <<dt, rows, cols>> \in dtypes \X (0..maxdim) \X (0..maxdim) }

\* the float64 value of element [r, c]
Val(a, r, c) ==
    IF a.dtype = "int64" THEN a.data[<<r, c>>] * One ELSE a.data[<<r, c>>]

\* a + t for a float64 scalar t: a new float64 array of a's shape (broadcasting)
AddScalar(a, t) ==
    [ty |-> "array", dtype |-> "float64", rows |-> a.rows, cols |-> a.cols,
     data |-> [p \in DOMAIN a.data |-> FlAdd(Val(a, p[1], p[2]), t)]]

Shape(a) == <<a.rows, a.cols>>

\* no value: a variable that is not bound
NoValue == [ty |-> "none"]

\* a Python tuple of floats
Tuple(items) == [ty |-> "tuple", items |-> items]

\* an element of np.empty() that has not been written: it is never read
Unset == NaN

\* np.empty(shape=(n, 3), dtype=np.float64)
empty(n) ==
    [ty |-> "array", dtype |-> "float64", rows |-> n, cols |-> 3,
     data |-> [p \in (0..(n - 1)) \X (0..2) |-> Unset]]

\* o[k] = x, y, z: row k of o overwritten
SetRow(o, k, xyz) ==
    [o EXCEPT !.data = [p \in DOMAIN o.data |->
                          IF p[1] = k THEN xyz[p[2] + 1] ELSE o.data[p]]]

\* row k of an n x 3 array as (x, y, z)
Row(o, k) == <<o.data[<<k, 0>>], o.data[<<k, 1>>], o.data[<<k, 2>>]>>

\* typeof(): the type Numba's dispatcher sees for an argument
TypeOf(x) ==
    IF x.ty = "array"
    THEN (IF x.dtype = "int64" THEN "array(int64, 2d, C)" ELSE "array(float64, 2d, C)")
    ELSE x.ty

Signature(as) == [k \in 1..Len(as) |-> TypeOf(as[k])]

-----------------------------------------------------------------------------
(* go_numpy: a + np.tanh(np.diagonal(a)).sum() *)

\* np.diagonal(a): the min(rows, cols) elements a[k, k]
diagonal(a) == [k \in 1..Min(a.rows, a.cols) |-> Val(a, k - 1, k - 1)]

\* np.tanh of a vector
tanh_vec(s) == [k \in 1..Len(s) |-> tanh(s[k])]

\* res += s[k] for k = from .. Len(s), in order
RECURSIVE AddInOrder(_, _, _)
AddInOrder(res, s, from) ==
    IF from > Len(s) THEN res ELSE AddInOrder(FlAdd(res, s[from]), s, from + 1)

\* the unroll factor of NumPy's summation loop
Unroll == 8

\* NumPy's unrolled loop: eight accumulators over the blocks of eight starting at from
RECURSIVE Accumulate8(_, _, _)
Accumulate8(r, s, from) ==
    IF from + 7 > Len(s) - (Len(s) % 8) THEN r
    ELSE Accumulate8([k \in 1..8 |-> FlAdd(r[k], s[from + k - 1])], s, from + 8)

\* NumPy's pairwise summation of a contiguous float64 vector
RECURSIVE pairwise_sum(_)
pairwise_sum(s) ==
    LET n == Len(s) IN
    IF n < Unroll THEN AddInOrder(0, s, 1)
    ELSE IF n <= 128 THEN
        LET r == Accumulate8([k \in 1..8 |-> s[k]], s, 9)
            res == FlAdd(FlAdd(FlAdd(r[1], r[2]), FlAdd(r[3], r[4])),
                         FlAdd(FlAdd(r[5], r[6]), FlAdd(r[7], r[8])))
        IN  AddInOrder(res, s, n - (n % 8) + 1)
    ELSE
        LET n2 == (n \div 2) - ((n \div 2) % 8)
        IN  FlAdd(pairwise_sum(SubSeq(s, 1, n2)), pairwise_sum(SubSeq(s, n2 + 1, n)))

\* ndarray.sum(): the add reduction started from its identity 0
sum(s) == FlAdd(0, pairwise_sum(s))

go_numpy(a) == AddScalar(a, sum(tanh_vec(diagonal(a))))

-----------------------------------------------------------------------------
(* go_fast *)

\* trace += e: the loop body without np.tanh
trace_add_no_tanh(t, e) == FlAdd(t, e)

\* trace += np.tanh(e)
trace_add(t, e) == FlAdd(t, tanh(e))

\* a += trace; return a: the sum written into the argument array
go_fast_return_in_place(a, t) == [ret |-> AddScalar(a, t), a |-> AddScalar(a, t)]

\* return a + trace: the value returned and the argument array afterwards
go_fast_return(a, t) == [ret |-> AddScalar(a, t), a |-> a]

\* a[k, k] as the compiled code reads it, without a bounds check: the element
\* at offset k*cols + k of the buffer when there is one
\* a bounds check that stops one column early
InShapeShort(a, k) == k < a.rows /\ k + 1 < a.cols

InShape(a, k) == k < a.rows /\ k < a.cols
InBuffer(a, k) == k * a.cols + k < a.rows * a.cols
BufferVal(a, k) ==
    Val(a, (k * a.cols + k) \div a.cols, (k * a.cols + k) % a.cols)

\* what an unchecked read past the buffer may find
Garbage == {0, 3 * One}

\* the values an unchecked read of a[k, k] past the shape may yield
UncheckedRead(a, k) == IF InBuffer(a, k) THEN {BufferVal(a, k)} ELSE Garbage

-----------------------------------------------------------------------------
(* spherical_to_cartesian *)

\* the conversion with z taken from the sine
spherical_to_cartesian_z_sin(r, theta, phi) ==
    LET sin_theta == sin(theta)
        x == FlMul(FlMul(r, sin_theta), cos(phi))
        y == FlMul(FlMul(r, sin_theta), sin(phi))
        z == FlMul(r, sin(theta))
    IN  <<x, y, z>>

spherical_to_cartesian(r, theta, phi) ==
    LET sin_theta == sin(theta)
        x == FlMul(FlMul(r, sin_theta), cos(phi))
        y == FlMul(FlMul(r, sin_theta), sin(phi))
        z == FlMul(r, cos(theta))
    IN  <<x, y, z>>

-----------------------------------------------------------------------------
(* The @jit dispatchers *)

JitFunctions == {"go_fast", "spherical_to_cartesian", "random_directions"}

\* every specialisation the modelled calls can ask for
Keys ==
    { <<"go_fast", <<"array(int64, 2d, C)">> >>,
      <<"go_fast", <<"array(float64, 2d, C)">> >>,
      <<"spherical_to_cartesian", <<"float64", "float64", "float64">> >>,
      <<"spherical_to_cartesian", <<"int64", "float64", "float64">> >>,
      <<"random_directions", <<"int64", "float64">> >>,
      <<"random_directions", <<"int64", "int64">> >> }

\* the specialisations of other dispatchers that compiling f for sig asks for:
\* random_directions(n, r) calls spherical_to_cartesian(r, theta, phi)
Callees(f, sig) ==
    IF f = "random_directions"
    THEN { <<"spherical_to_cartesian", <<sig[2], "float64", "float64">> >> }
    ELSE {}

\* a dispatcher that compiles at every call, without looking the signature up
ToCompileAlways(f, sig, cache) == { <<f, sig>> } \cup Callees(f, sig)

\* what a call of dispatcher f with signature sig compiles, given the caches
ToCompile(f, sig, cache) ==
    IF <<f, sig>> \in cache THEN {}
    ELSE ({ <<f, sig>> } \cup Callees(f, sig)) \ cache

\* Dispatcher.__call__: look the signature up, compile on a miss
Dispatch(f, as) ==
    LET new == ToCompile(f, Signature(as), compiled) IN
    /\ hit' = (<<f, Signature(as)>> \in compiled)
    /\ compiled' = compiled \cup new
    /\ ncompile' = [k \in Keys |-> IF k \in new THEN ncompile[k] + 1 ELSE ncompile[k]]

\* a plain Python function: no dispatcher is involved
NoDispatch == hit' = FALSE /\ UNCHANGED <<compiled, ncompile>>

-----------------------------------------------------------------------------
(* State *)

NoDraw == [phi |-> 0, u |-> 0, theta |-> 0]
NoRef == [fn |-> "none", args |-> <<>>, ret |-> NoValue]

\* the locals of a call, before it starts and after its frame is dropped
NoCall ==
    /\ fn' = "none" /\ args' = <<>> /\ i' = 0 /\ iters' = 0 /\ trace' = 0
    /\ out' = NoValue /\ draw' = NoDraw /\ ret' = NoValue /\ err' = "none"
    /\ hit' = FALSE

Init ==
    /\ defined = {}
    /\ compiled = {}
    /\ ncompile = [k \in Keys |-> 0]
    /\ hit = FALSE
    /\ rng \in 0..(RngMod - 1)
    /\ pc = "idle" /\ fn = "none" /\ args = <<>> /\ i = 0 /\ iters = 0 /\ trace = 0
    /\ out = NoValue /\ draw = NoDraw /\ ret = NoValue /\ err = "none"
    /\ ref = NoRef

\* entering function f with arguments as
Enter(f, as) ==
    /\ pc = "idle"
    /\ fn' = f /\ args' = as
    /\ i' = 0 /\ iters' = 0 /\ err' = "none" /\ draw' = NoDraw
    /\ UNCHANGED <<defined, rng, ref>>

-----------------------------------------------------------------------------
(* The definition cells: a def statement binds the name; @jit wraps the    *)
(* function in a dispatcher with an empty cache.  Each cell runs once.     *)

cell_go_fast ==
    /\ pc = "idle" /\ "go_fast" \notin defined
    /\ defined' = defined \cup {"go_fast"}
    /\ UNCHANGED <<compiled, ncompile, hit, rng, pc, fn, args, i, iters, trace, out,
                   draw, ret, err, ref>>

cell_go_numpy ==
    /\ pc = "idle" /\ "go_numpy" \notin defined
    /\ defined' = defined \cup {"go_numpy"}
    /\ UNCHANGED <<compiled, ncompile, hit, rng, pc, fn, args, i, iters, trace, out,
                   draw, ret, err, ref>>

cell_random ==
    /\ pc = "idle" /\ "random_directions" \notin defined
    /\ defined' = defined \cup {"spherical_to_cartesian", "random_directions"}
    /\ UNCHANGED <<compiled, ncompile, hit, rng, pc, fn, args, i, iters, trace, out,
                   draw, ret, err, ref>>

-----------------------------------------------------------------------------
(* go_fast(a) and go_fast.py_func(a) *)

\* go_fast(a): dispatch, then trace = 0.0 and the loop
go_fast_call(inputs) ==
    /\ "go_fast" \in defined
    /\ \E a \in inputs :
         /\ Enter("go_fast", <<a>>)
         /\ Dispatch("go_fast", <<a>>)
    /\ trace' = 0 /\ out' = NoValue /\ ret' = NoValue
    /\ pc' = "loop"

\* go_fast.py_func(a): the undecorated function, run by the interpreter
py_func_call(inputs) ==
    /\ "go_fast" \in defined
    /\ \E a \in inputs : Enter("go_fast.py_func", <<a>>)
    /\ NoDispatch
    /\ trace' = 0 /\ out' = NoValue /\ ret' = NoValue
    /\ pc' = "loop"

\* one iteration of the compiled loop: a[i, i] is read without a bounds check
go_fast_loop ==
    /\ pc = "loop" /\ fn = "go_fast"
    /\ i < args[1].rows
    /\ \/ /\ InShape(args[1], i)
          /\ trace' = trace_add(trace, Val(args[1], i, i))
          /\ i' = i + 1 /\ iters' = iters + 1
          /\ UNCHANGED <<pc, err>>
       \/ /\ ~InShape(args[1], i)
          /\ \E e \in UncheckedRead(args[1], i) : trace' = trace_add(trace, e)
          /\ i' = i + 1 /\ iters' = iters + 1 /\ err' = "oob"
          /\ UNCHANGED pc
       \/ /\ ~InShape(args[1], i) /\ ~InBuffer(args[1], i)
          /\ pc' = "done" /\ err' = "crash"
          /\ UNCHANGED <<trace, i, iters>>
    /\ UNCHANGED <<defined, compiled, ncompile, hit, rng, fn, args, out, draw, ret, ref>>

\* one iteration of the interpreted loop: a[i, i] raises IndexError past the shape
py_func_loop ==
    /\ pc = "loop" /\ fn = "go_fast.py_func"
    /\ i < args[1].rows
    /\ \/ /\ InShape(args[1], i)
          /\ trace' = trace_add(trace, Val(args[1], i, i))
          /\ i' = i + 1 /\ iters' = iters + 1
          /\ UNCHANGED <<pc, err>>
       \/ /\ ~InShape(args[1], i)
          /\ pc' = "done" /\ err' = "IndexError"
          /\ UNCHANGED <<trace, i, iters>>
    /\ UNCHANGED <<defined, compiled, ncompile, hit, rng, fn, args, out, draw, ret, ref>>

\* the loop left one iteration early
go_fast_exit_early ==
    /\ pc = "loop" /\ fn \in {"go_fast", "go_fast.py_func"}
    /\ i >= args[1].rows - 1
    /\ ret' = AddScalar(args[1], trace)
    /\ pc' = "done"
    /\ UNCHANGED <<defined, compiled, ncompile, hit, rng, fn, args, i, iters, trace,
                   out, draw, err, ref>>

\* range(a.shape[0]) is exhausted: return a + trace
go_fast_exit ==
    /\ pc = "loop" /\ fn \in {"go_fast", "go_fast.py_func"}
    /\ i >= args[1].rows
    /\ ret' = go_fast_return(args[1], trace).ret
    /\ args' = <<go_fast_return(args[1], trace).a>>
    /\ pc' = "done"
    /\ UNCHANGED <<defined, compiled, ncompile, hit, rng, fn, i, iters, trace, out,
                   draw, err, ref>>

-----------------------------------------------------------------------------
(* go_numpy(a) *)

go_numpy_call(inputs) ==
    /\ "go_numpy" \in defined
    /\ \E a \in inputs :
         /\ Enter("go_numpy", <<a>>)
         /\ ret' = go_numpy(a)
    /\ NoDispatch
    /\ trace' = 0 /\ out' = NoValue
    /\ pc' = "done"

-----------------------------------------------------------------------------
(* spherical_to_cartesian(r, theta, phi), called from the notebook *)

\* the two draws of one iteration, from generator state s
draw_phi(s) == uniform(0, TwoPi, s)
draw_u(s) == uniform(-One, One, RngNext(s))

\* the conversion reading a notebook-level phi (the generator's next draw)
\* instead of its parameter
spherical_to_cartesian_call_global_phi(inputs) ==
    /\ "spherical_to_cartesian" \in defined
    /\ \E as \in inputs :
         /\ Enter("spherical_to_cartesian", as)
         /\ Dispatch("spherical_to_cartesian", as)
         /\ ret' = Tuple(spherical_to_cartesian(AsFloat(as[1]), AsFloat(as[2]),
                                                draw_phi(rng)))
    /\ trace' = 0 /\ out' = NoValue
    /\ pc' = "done"

spherical_to_cartesian_call(inputs) ==
    /\ "spherical_to_cartesian" \in defined
    /\ \E as \in inputs :
         /\ Enter("spherical_to_cartesian", as)
         /\ Dispatch("spherical_to_cartesian", as)
         /\ ret' = Tuple(spherical_to_cartesian(AsFloat(as[1]), AsFloat(as[2]),
                                                AsFloat(as[3])))
    /\ trace' = 0 /\ out' = NoValue
    /\ pc' = "done"

-----------------------------------------------------------------------------
(* random_directions(n, r) *)

\* out = np.empty(shape=(n, 3), dtype=np.float64)
random_directions_call(ns, rs) ==
    /\ "random_directions" \in defined
    /\ \E n \in ns, r \in rs :
         /\ Enter("random_directions", <<Int64(n), r>>)
         /\ Dispatch("random_directions", <<Int64(n), r>>)
         /\ out' = empty(n)
    /\ trace' = 0 /\ ret' = NoValue
    /\ pc' = "loop"

\* one iteration: phi, theta, the conversion, out[i] = x, y, z
random_directions_loop ==
    /\ pc = "loop" /\ fn = "random_directions"
    /\ i < args[1].v
    /\ \E phi \in {draw_phi(rng)}, u \in {draw_u(rng)} :
         \E theta \in {arccos(u)} :
           \E xyz \in {spherical_to_cartesian(AsFloat(args[2]), theta, phi)} :
             /\ draw' = [phi |-> phi, u |-> u, theta |-> theta]
             /\ out' = SetRow(out, i, xyz)
             /\ err' = IF theta = NaN THEN "nan" ELSE err
    /\ rng' = RngNext(RngNext(rng))
    /\ i' = i + 1 /\ iters' = iters + 1
    /\ UNCHANGED <<defined, compiled, ncompile, hit, pc, fn, args, trace, ret, ref>>

\* range(n) is exhausted: return out
random_directions_exit ==
    /\ pc = "loop" /\ fn = "random_directions"
    /\ i >= args[1].v
    /\ ret' = out
    /\ pc' = "done"
    /\ UNCHANGED <<defined, compiled, ncompile, hit, rng, fn, args, i, iters, trace,
                   out, draw, err, ref>>

-----------------------------------------------------------------------------
(* The end of a call *)

\* the call's frame is dropped and the notebook goes on
finish ==
    /\ pc = "done"
    /\ pc' = "idle"
    /\ NoCall
    /\ UNCHANGED <<defined, compiled, ncompile, rng, ref>>

\* keep a call that returned, to compare a later call with it
remember ==
    /\ pc = "done" /\ err = "none" /\ ref = NoRef
    /\ ref' = [fn |-> fn, args |-> args, ret |-> ret]
    /\ UNCHANGED <<defined, compiled, ncompile, hit, rng, pc, fn, args, i, iters,
                   trace, out, draw, ret, err>>

-----------------------------------------------------------------------------
(* Inputs *)

DTypes == {"int64", "float64"}
SmallMatrices == Matrices(SmallDim, DTypes)
TraceMatrices == Matrices(MaxDim, {"int64"})
PureMatrices == Matrices(SmallDim, {"int64"})
PureRadii == {Float64(One)}
Counts == 0..MaxCount
\* radii: 1.0 and 1.5 as floats, 2 as an int
Radii == {Float64(One), Float64(One + One \div 2), Int64(2)}
\* direct calls of spherical_to_cartesian
Sphericals ==
    { <<r, Float64(theta), Float64(phi)>> :
        r \in {Float64(One), Int64(2)}, theta \in {0, Pi \div 2}, phi \in {0, One} }

-----------------------------------------------------------------------------
(* Specifications *)

\* the whole notebook on small inputs
Next ==
    \/ cell_go_fast \/ cell_go_numpy \/ cell_random
    \/ go_fast_call(SmallMatrices) \/ py_func_call(SmallMatrices)
    \/ go_fast_loop \/ py_func_loop \/ go_fast_exit
    \/ go_numpy_call(SmallMatrices)
    \/ spherical_to_cartesian_call(Sphericals)
    \/ random_directions_call(Counts, Radii)
    \/ random_directions_loop \/ random_directions_exit
    \/ finish

Spec == Init /\ [][Next]_vars

\* the notebook after every cell has run and every specialisation has been
\* compiled, with the generator seeded
InitWarm ==
    /\ defined = JitFunctions \cup {"go_numpy"}
    /\ compiled = Keys
    /\ ncompile = [k \in Keys |-> 1]
    /\ hit = FALSE
    /\ rng = 0
    /\ pc = "idle" /\ fn = "none" /\ args = <<>> /\ i = 0 /\ iters = 0 /\ trace = 0
    /\ out = NoValue /\ draw = NoDraw /\ ret = NoValue /\ err = "none"
    /\ ref = NoRef

\* the calls of the notebook
Calls ==
    \/ go_fast_call(SmallMatrices) \/ py_func_call(SmallMatrices)
    \/ go_fast_loop \/ py_func_loop \/ go_fast_exit
    \/ go_numpy_call(SmallMatrices)
    \/ spherical_to_cartesian_call(Sphericals)
    \/ random_directions_call(Counts, Radii)
    \/ random_directions_loop \/ random_directions_exit
    \/ finish

\* a call, once started, keeps running: the interpreter executes the next
\* statement of the function in progress
Run ==
    \/ go_fast_loop \/ py_func_loop \/ go_fast_exit
    \/ random_directions_loop \/ random_directions_exit

FairSpec == InitWarm /\ [][Calls]_vars /\ WF_vars(Run)

\* the calls on fewer inputs, keeping one returned call to compare later
\* calls with
CallsPure ==
    \/ go_fast_call(PureMatrices) \/ py_func_call(PureMatrices)
    \/ go_fast_loop \/ py_func_loop \/ go_fast_exit
    \/ go_numpy_call(PureMatrices)
    \/ spherical_to_cartesian_call(Sphericals)
    \/ random_directions_call(Counts, PureRadii)
    \/ random_directions_loop \/ random_directions_exit
    \/ finish
    \/ remember

SpecPure == InitWarm /\ [][CallsPure]_vars

\* the trace functions alone, defined and compiled, on matrices large enough
\* for NumPy's unrolled summation
NextTrace ==
    \/ go_fast_call(TraceMatrices) \/ py_func_call(TraceMatrices)
    \/ go_fast_loop \/ py_func_loop \/ go_fast_exit
    \/ go_numpy_call(TraceMatrices)
    \/ finish

SpecTrace == InitWarm /\ [][NextTrace]_vars

-----------------------------------------------------------------------------
(* Claims *)

IsSquare(a) == a.rows = a.cols

\* a compiled go_fast call that has returned
GoFastReturned == pc = "done" /\ fn = "go_fast" /\ err = "none"

\* C2 as stated: for every square matrix a, go_fast(a) equals go_numpy(a)
\* element for element and both have the shape of a.
C2_EqualForEverySquare ==
    (GoFastReturned /\ IsSquare(args[1])) =>
        /\ ret = go_numpy(args[1])
        /\ Shape(ret) = Shape(args[1])
        /\ Shape(go_numpy(args[1])) = Shape(args[1])

\* C2 amended: for every square matrix a both results have the shape of a,
\* and go_fast(a) equals go_numpy(a) element for element when a has fewer
\* rows than NumPy's summation unrolls (8), where sum() adds in loop order.
C2_EqualBelowUnroll ==
    (GoFastReturned /\ IsSquare(args[1])) =>
        /\ Shape(ret) = Shape(args[1])
        /\ Shape(go_numpy(args[1])) = Shape(args[1])
        /\ args[1].rows < Unroll => ret = go_numpy(args[1])

\* go_fast has returned on a 7 x 7 matrix with the value go_numpy gives
C2_Witness ==
    /\ GoFastReturned /\ IsSquare(args[1]) /\ args[1].rows = Unroll - 1
    /\ ret = go_numpy(args[1])

\* the parts of C9 that do not compare go_fast with go_numpy: with rows <=
\* columns every index the loop uses is in bounds and no call fails; with rows
\* > columns the interpreted loop raises IndexError at i = a.shape[1], the
\* compiled loop reads past the shape, and go_numpy returns a result of a's
\* shape over the min(rows, columns) diagonal entries.
C9_Bounds ==
    /\ (pc = "loop" /\ fn \in {"go_fast", "go_fast.py_func"}
            /\ args[1].rows <= args[1].cols /\ i < args[1].rows)
          => InShape(args[1], i)
    /\ (pc = "done" /\ fn \in {"go_fast", "go_fast.py_func"}
            /\ args[1].rows <= args[1].cols)
          => err = "none" /\ iters = args[1].rows
    /\ (pc = "done" /\ fn = "go_fast.py_func" /\ args[1].rows > args[1].cols)
          => err = "IndexError" /\ i = args[1].cols
    /\ (pc = "done" /\ fn = "go_fast" /\ args[1].rows > args[1].cols)
          => err \in {"oob", "crash"} /\ i >= args[1].cols
    /\ (pc = "done" /\ fn = "go_numpy")
          => /\ err = "none"
             /\ Len(diagonal(args[1])) = Min(args[1].rows, args[1].cols)
             /\ Shape(ret) = Shape(args[1])

\* C9 as stated: go_fast needs the square-matrix assumption only when rows
\* exceed columns: with rows <= columns it is in bounds and equals go_numpy;
\* with rows > columns it reads out of bounds (an error when uncompiled) while
\* go_numpy still returns a result.
C9_SquareOnlyWhenTall ==
    /\ C9_Bounds
    /\ (GoFastReturned /\ args[1].rows <= args[1].cols) => ret = go_numpy(args[1])

\* C9 amended: as stated, but with rows <= columns go_fast(a) equals
\* go_numpy(a) when a has fewer than 8 rows (below NumPy's summation unroll).
C9_SquareOnlyWhenTallBelowUnroll ==
    /\ C9_Bounds
    /\ (GoFastReturned /\ args[1].rows <= args[1].cols /\ args[1].rows < Unroll)
          => ret = go_numpy(args[1])

\* the interpreted go_fast has raised IndexError on a matrix with more rows
\* than columns, at the first index past the columns
C9_Witness ==
    /\ pc = "done" /\ fn = "go_fast.py_func" /\ err = "IndexError"
    /\ args[1].rows > args[1].cols /\ args[1].cols > 0 /\ i = args[1].cols

\* x^2 + y^2 + z^2 of a row, and r^2, both in squared units
Norm2(row) == row[1] * row[1] + row[2] * row[2] + row[3] * row[3]
Radius2 == AsFloat(args[2]) * AsFloat(args[2])

RandomDirectionsReturned == pc = "done" /\ fn = "random_directions"

\* C6 as stated: every row (x, y, z) random_directions(n, r) returns
\* satisfies x^2 + y^2 + z^2 = r^2.
C6_RadiusExact ==
    RandomDirectionsReturned =>
        \A k \in 0..(ret.rows - 1) : Norm2(Row(ret, k)) = Radius2

\* C6 amended: every row random_directions(n, r) returns is
\* spherical_to_cartesian(r, theta, phi) of its draws and has radius r up to
\* floating-point rounding: |x^2 + y^2 + z^2 - r^2| <= 8 * 2^-p * r^2 for a
\* significand of p bits.
C6_RadiusRounded ==
    /\ RandomDirectionsReturned =>
          \A k \in 0..(ret.rows - 1) :
              Abs(Norm2(Row(ret, k)) - Radius2) * Pow2(MantBits) <= 8 * Radius2
    /\ (fn = "random_directions" /\ iters > 0) =>
          Row(out, iters - 1) =
              <<FlMul(FlMul(AsFloat(args[2]), sin(draw.theta)), cos(draw.phi)),
                FlMul(FlMul(AsFloat(args[2]), sin(draw.theta)), sin(draw.phi)),
                FlMul(AsFloat(args[2]), cos(draw.theta))>>

\* random_directions has returned rows, one of them off the sphere of radius r
C6_Witness ==
    /\ RandomDirectionsReturned /\ ret.rows = MaxCount
    /\ \E k \in 0..(ret.rows - 1) : Norm2(Row(ret, k)) # Radius2
    /\ \E k \in 0..(ret.rows - 1) : Norm2(Row(ret, k)) = Radius2

\* C8: in every iteration of random_directions the argument of arccos lies
\* in [-1, 1], theta in [0, pi] and phi in [0, 2*pi]; no call reaches a
\* numeric domain error.
C8_ArccosInDomain ==
    /\ err # "nan"
    /\ (fn = "random_directions" /\ iters > 0) =>
          /\ draw.u \in (-One)..One
          /\ draw.theta # NaN
          /\ draw.theta \in 0..Pi
          /\ draw.phi \in 0..TwoPi

\* an iteration has drawn the argument -1.0, where theta = pi
C8_Witness ==
    /\ fn = "random_directions" /\ iters > 0
    /\ draw.u = -One /\ draw.theta = Pi

\* the values of array b are those of array a
SameValues(a, b) ==
    /\ Shape(a) = Shape(b)
    /\ \A p \in DOMAIN a.data : Val(b, p[1], p[2]) = Val(a, p[1], p[2])

\* a returned call has run exactly as many loop bodies as its range() yields
C7_ExactIterations ==
    /\ (pc = "done" /\ fn \in {"go_fast", "go_fast.py_func"} /\ IsSquare(args[1]))
          => /\ err = "none"
             /\ iters = args[1].rows
             /\ args[1].rows = 0 => (trace = 0 /\ SameValues(args[1], ret))
    /\ RandomDirectionsReturned
          => /\ iters = args[1].v
             /\ Shape(ret) = <<args[1].v, 3>>
             /\ \A p \in DOMAIN ret.data : ret.data[p] # Unset

\* C7: every example runs to completion: go_fast(a) returns after exactly
\* a.shape[0] iterations for every square a (for the 0 x 0 matrix the trace
\* stays 0.0 and the result equals a), and random_directions(n, r) returns
\* after exactly n iterations for every n >= 0.
C7_RunsToCompletion ==
    /\ []C7_ExactIterations
    /\ (pc = "loop") ~> (pc = "done")

\* go_fast has returned on the 0 x 0 matrix
C7_Witness ==
    /\ GoFastReturned /\ Shape(args[1]) = <<0, 0>> /\ iters = 0
    /\ Shape(ret) = <<0, 0>>

\* a step that enters a @jit function
JitCall == pc = "idle" /\ pc' # "idle" /\ fn' \in JitFunctions

ArgsKept == (pc # "idle" /\ pc' # "idle") => args' = args

\* C5 as stated: no invocation modifies its arguments or leaves behind state
\* that outlives the call and is visible to a later call.
C5_NothingOutlivesCall ==
    [][ArgsKept /\ rng' = rng]_vars

\* C5 amended: no invocation modifies its arguments, and go_fast, go_numpy
\* and spherical_to_cartesian leave no state behind except the dispatcher's
\* cache on a first call; random_directions advances the global random
\* generator by two draws per iteration, which later calls observe.
C5_OnlyGeneratorAndCacheOutlive ==
    [][ /\ ArgsKept
        /\ (fn = "random_directions" /\ pc = "loop" /\ pc' = "loop")
              => rng' = RngNext(RngNext(rng))
        /\ ~(fn = "random_directions" /\ pc = "loop" /\ pc' = "loop")
              => rng' = rng
        /\ compiled' # compiled => (JitCall /\ ~hit')
        /\ defined' # defined => (pc = "idle" /\ pc' = "idle")
      ]_vars

\* go_fast has returned a new array from a non-empty matrix
C5_Witness ==
    /\ GoFastReturned /\ args[1].rows = SmallDim /\ args[1].cols = SmallDim
    /\ ~SameValues(args[1], ret)

\* the call that has returned repeats the remembered call
SameCall == pc = "done" /\ err = "none" /\ ref.fn = fn /\ ref.args = args

=============================================================================
